---- MODULE Spec2Model ----
(***************************************************************************)
(* A model of the Sraffa price engine: the linear solver, the power        *)
(* iteration, the price system (src/utils/math.ts), the national accounts  *)
(* and cost breakdown computed from them, the editing handlers             *)
(* (src/App.tsx, src/unnamed/part_000) and the commentary request          *)
(* (src/App.tsx, src/services/gemini.ts).                                  *)
(*                                                                         *)
(* Numbers.  A JavaScript number is modelled as a triple <<n, d, e>>       *)
(* standing for (n / d) * 10^e, with d > 0 and gcd(n, d) = 1 for a finite  *)
(* value; d = 0 encodes the IEEE-754 specials (NaN = <<0,0,0>>,            *)
(* +Infinity = <<1,0,0>>, -Infinity = <<-1,0,0>>).  Arithmetic on finite   *)
(* values is exact: the rounding of IEEE doubles is not modelled, so what  *)
(* is established here is established of the algorithms in exact           *)
(* arithmetic.  Zero is unsigned and divides like +0.  The decimal         *)
(* exponent lets the tolerances of the code (1e-10, 1e-6, 1e-12) and       *)
(* inputs below them be written within TLC's 32-bit integers.              *)
(***************************************************************************)
EXTENDS Integers, Sequences, FiniteSets, TLC

VARIABLES
    pc,        \* the position of the call in progress
    argA,      \* solveLinearSystem: the caller's matrix A
    argB,      \* solveLinearSystem: the caller's vector b
    aug,       \* solveLinearSystem: the augmented working copy
    step,      \* solveLinearSystem: the elimination step i (1-based)
    ret,       \* solveLinearSystem: the value returned
    commodities,  \* App: the commodity list (id, totalOutput, laborInput)
    matrix,       \* App: the input matrix
    profitRate,   \* App: r
    wage,         \* App: w
    prices,       \* metrics.prices
    isValid,      \* metrics.isValid
    aggregates,   \* the national accounts, or null
    breakdown,    \* the last getCostBreakdown(idx) result, with its idx
    eigV,         \* getDominantEigenvalue: the direction of v (see below)
    eigIter,      \* getDominantEigenvalue: iter
    lambda,       \* getDominantEigenvalue: the value returned
    maxProfitRate, \* metrics.maxProfitRate
    analysis,     \* App: the commentary text
    isAnalyzing,  \* App: the commentary request flag
    request,      \* the analyzeEconomy call in flight, with its arguments
    ai,           \* gemini.ts: the client, or null
    calls,        \* the calls of calculateSraffianPrices made so far
    edits         \* the number of editing operations made so far

solverVars == <<argA, argB, aug, step, ret>>

snapshotVars == <<commodities, matrix, profitRate, wage>>

renderVars == <<prices, isValid, aggregates, breakdown>>

eigenVars == <<eigV, eigIter, lambda, maxProfitRate>>

sessionVars == <<analysis, isAnalyzing, request, ai, calls, edits>>

vars == <<pc, solverVars, snapshotVars, renderVars, eigenVars, sessionVars>>

----------------------------------------------------------------------------
(* JavaScript numbers *)

AbsInt(i) == IF i < 0 THEN -i ELSE i

SgnInt(i) == IF i < 0 THEN -1 ELSE IF i = 0 THEN 0 ELSE 1

RECURSIVE GCD(_, _)
GCD(a, b) == IF b = 0 THEN a ELSE GCD(b, a % b)

RECURSIVE PowTen(_)
PowTen(k) == IF k = 0 THEN 1 ELSE 10 * PowTen(k - 1)

MinInt(a, b) == IF a < b THEN a ELSE b

NaN == <<0, 0, 0>>

Infinity(s) == <<s, 0, 0>>

Zero == <<0, 1, 0>>

\* n * 10^e and 10^e / d with the factors of ten moved into the exponent
RECURSIVE StripNum(_, _, _)
StripNum(n, d, e) == IF n % 10 = 0 THEN StripNum(n \div 10, d, e + 1) ELSE <<n, d, e>>

RECURSIVE StripDen(_, _, _)
StripDen(n, d, e) == IF d % 10 = 0 THEN StripDen(n, d \div 10, e - 1) ELSE StripNum(n, d, e)

\* (n / d) * 10^e in lowest terms, d # 0
Mk(n, d, e) ==
    IF n = 0 THEN Zero
    ELSE LET g == GCD(AbsInt(n), AbsInt(d))
             s == SgnInt(d)
         IN  StripDen(s * (n \div g), s * (d \div g), e)

Num(i) == Mk(i, 1, 0)

\* i * 10^e and (n / d)
Dec(i, e) == Mk(i, 1, e)

Frac(n, d) == Mk(n, d, 0)

IsNaN(x) == x[2] = 0 /\ x[1] = 0

IsInf(x) == x[2] = 0 /\ x[1] # 0

IsFinite(x) == x[2] # 0

IsZero(x) == x[2] # 0 /\ x[1] = 0

Sign(x) == SgnInt(x[1])

Neg(x) == <<-x[1], x[2], x[3]>>

\* Math.abs
Abs(x) == <<AbsInt(x[1]), x[2], x[3]>>

\* x + y
Add(x, y) ==
    IF IsNaN(x) \/ IsNaN(y) THEN NaN
    ELSE IF IsInf(x) /\ IsInf(y) THEN (IF x[1] = y[1] THEN x ELSE NaN)
    ELSE IF IsInf(x) THEN x
    ELSE IF IsInf(y) THEN y
    ELSE IF IsZero(x) THEN y
    ELSE IF IsZero(y) THEN x
    ELSE LET m == MinInt(x[3], y[3])
             g == GCD(x[2], y[2])
             a == x[1] * PowTen(x[3] - m) * (y[2] \div g)
             b == y[1] * PowTen(y[3] - m) * (x[2] \div g)
         IN  Mk(a + b, (x[2] \div g) * y[2], m)

\* x - y
Sub(x, y) == Add(x, Neg(y))

\* x * y
Mul(x, y) ==
    IF IsNaN(x) \/ IsNaN(y) THEN NaN
    ELSE IF IsInf(x) \/ IsInf(y)
         THEN (IF IsZero(x) \/ IsZero(y) THEN NaN ELSE Infinity(Sign(x) * Sign(y)))
    ELSE IF IsZero(x) \/ IsZero(y) THEN Zero
    ELSE LET g1 == GCD(AbsInt(x[1]), y[2])
             g2 == GCD(AbsInt(y[1]), x[2])
         IN  Mk((x[1] \div g1) * (y[1] \div g2),
                (x[2] \div g2) * (y[2] \div g1), x[3] + y[3])

\* x / y
Div(x, y) ==
    IF IsNaN(x) \/ IsNaN(y) THEN NaN
    ELSE IF IsInf(y) THEN (IF IsInf(x) THEN NaN ELSE Zero)
    ELSE IF IsInf(x) THEN Infinity(Sign(x) * (IF IsZero(y) THEN 1 ELSE Sign(y)))
    ELSE IF IsZero(y) THEN (IF IsZero(x) THEN NaN ELSE Infinity(Sign(x)))
    ELSE IF IsZero(x) THEN Zero
    ELSE Mul(x, <<SgnInt(y[1]) * y[2], AbsInt(y[1]), -y[3]>>)

\* x < y for finite x, y > 0
LtPos(x, y) ==
    IF x[3] >= y[3]
    THEN LET k == x[3] - y[3]
         IN  IF k > 9 THEN FALSE
             ELSE x[1] * y[2] <= ((y[1] * x[2] - 1) \div PowTen(k))
    ELSE LET k == y[3] - x[3]
         IN  IF k > 9 THEN TRUE
             ELSE y[1] * x[2] > ((x[1] * y[2]) \div PowTen(k))

\* x < y (false when either is NaN)
Lt(x, y) ==
    IF IsNaN(x) \/ IsNaN(y) THEN FALSE
    ELSE IF IsInf(x) THEN x[1] < 0 /\ ~(IsInf(y) /\ y[1] < 0)
    ELSE IF IsInf(y) THEN y[1] > 0
    ELSE IF Sign(x) # Sign(y) THEN Sign(x) < Sign(y)
    ELSE IF Sign(x) = 0 THEN FALSE
    ELSE IF Sign(x) > 0 THEN LtPos(x, y)
    ELSE LtPos(Neg(y), Neg(x))

\* x > y, x <= y
Gt(x, y) == Lt(y, x)

Le(x, y) == ~IsNaN(x) /\ ~IsNaN(y) /\ ~Lt(y, x)

\* x === y
NumEq(x, y) == ~IsNaN(x) /\ ~IsNaN(y) /\ (x = y \/ (~Lt(x, y) /\ ~Lt(y, x)))

----------------------------------------------------------------------------
(* solveLinearSystem (src/utils/math.ts): Gaussian elimination with        *)
(* partial pivoting on the augmented copy aug of A and b.  Indices are     *)
(* 1-based here: row i of the code is row i + 1.                           *)

\* the singularity tolerance 1e-10
PivotTol == Dec(1, -10)

\* the explicit no-solution value, and a returned vector
Null == [null |-> TRUE, x |-> <<>>]

Vector(x) == [null |-> FALSE, x |-> x]

\* const aug = b.map((val, i) => [...M[i], val])
Augment(A, b) == [i \in 1..Len(b) |-> Append(A[i], b[i])]

\* a slip: no pivot search, the pivot row is row i as it stands
MaxRowNoSearch(M, n, i, k, maxRow) == i

\* the pivot search: the first row of largest magnitude in column i
RECURSIVE MaxRow(_, _, _, _, _)
MaxRow(M, n, i, k, maxRow) ==
    IF k > n THEN maxRow
    ELSE MaxRow(M, n, i, k + 1,
                IF Gt(Abs(M[k][i]), Abs(M[maxRow][i])) THEN k ELSE maxRow)

\* [aug[i], aug[maxRow]] = [aug[maxRow], aug[i]]
SwapRows(M, i, m) ==
    [r \in 1..Len(M) |-> IF r = i THEN M[m] ELSE IF r = m THEN M[i] ELSE M[r]]

\* a slip in the tolerance: 1e-12 for 1e-10
IsSingularPivotLoose(p) == Lt(Abs(p), Dec(1, -12))

\* if (Math.abs(aug[i][i]) < 1e-10) return null
IsSingularPivot(p) == Lt(Abs(p), PivotTol)

\* the elimination of column i from the rows below row i
Eliminate(M, n, i) ==
    [k \in 1..n |->
        IF k <= i THEN M[k]
        ELSE LET factor == Div(M[k][i], M[i][i])
             IN  [j \in 1..(n + 1) |->
                    IF j < i THEN M[k][j]
                    ELSE Sub(M[k][j], Mul(factor, M[i][j]))]]

\* the forward pass from step i on: the reduced matrix, or Null
RECURSIVE Forward(_, _, _)
Forward(M, n, i) ==
    IF i > n THEN Vector(M)
    ELSE LET swapped == SwapRows(M, i, MaxRow(M, n, i, i + 1, i))
         IN  IF IsSingularPivot(swapped[i][i]) THEN Null
             ELSE Forward(Eliminate(swapped, n, i), n, i + 1)

\* sum of aug[i][j] * x[j] for j = from .. n, accumulated left to right
RECURSIVE RowSum(_, _, _, _, _, _)
RowSum(M, x, n, i, j, sum) ==
    IF j > n THEN sum
    ELSE RowSum(M, x, n, i, j + 1, Add(sum, Mul(M[i][j], x[j])))

\* back substitution from row i up to row 1; x holds rows i+1..n
RECURSIVE BackSubstitute(_, _, _, _)
BackSubstitute(M, x, n, i) ==
    IF i < 1 THEN x
    ELSE LET sum == RowSum(M, x, n, i, i + 1, Zero)
             xi  == Div(Sub(M[i][n + 1], sum), M[i][i])
         IN  BackSubstitute(M, [x EXCEPT ![i] = xi], n, i - 1)

solveLinearSystem(A, b) ==
    LET n   == Len(A)
        fwd == Forward(Augment(A, b), n, 1)
    IN  IF fwd.null THEN Null
        ELSE Vector(BackSubstitute(fwd.x, [i \in 1..n |-> Zero], n, n))

----------------------------------------------------------------------------
(* getDominantEigenvalue and calculateMaxProfitRate (src/utils/math.ts).   *)
(* The code keeps a unit vector v and divides by a square root; here v is  *)
(* kept as its direction, the integer vector u of coprime entries with     *)
(* v = u / |u|.  Then w = A.v = (A.u) / |u|, its norm is |A.u| / |u|, the  *)
(* test norm < 1e-12 is |A.u|^2 < 1e-24 |u|^2, the next v has the          *)
(* direction of A.u, and the Rayleigh quotient v.(A.v) is u.(A.u) / u.u.   *)

\* the number of power iterations
Iterations == 1000

LCM(a, b) == (a \div GCD(a, b)) * b

\* w = A * v, for v given by integers
MatVec(A, u) ==
    LET RECURSIVE acc(_, _)
        acc(i, j) == IF j = 0 THEN Zero ELSE Add(acc(i, j - 1), Mul(A[i][j], Num(u[j])))
    IN  [i \in 1..Len(A) |-> acc(i, Len(A))]

\* sum of x[i] * y[i]
RECURSIVE Inner(_, _, _)
Inner(x, y, i) == IF i = 0 THEN Zero ELSE Add(Inner(x, y, i - 1), Mul(x[i], y[i]))

NormSq(x) == Inner(x, x, Len(x))

NumVec(u) == [i \in 1..Len(u) |-> Num(u[i])]

\* the direction of a non-zero vector w of finite numbers: coprime integers
\* that are w times a positive factor
Direction(w) ==
    LET idx == {i \in 1..Len(w) : ~IsZero(w[i])}
        RECURSIVE minExp(_)
        minExp(S) == IF S = {} THEN 0
                     ELSE LET i == CHOOSE k \in S : TRUE
                              rest == S \ {i}
                          IN  IF rest = {} THEN w[i][3]
                              ELSE MinInt(w[i][3], minExp(rest))
        RECURSIVE lcmDen(_)
        lcmDen(i) == IF i = 0 THEN 1 ELSE LCM(lcmDen(i - 1), w[i][2])
        m == minExp(idx)
        D == lcmDen(Len(w))
        ints == [i \in 1..Len(w) |->
                    IF IsZero(w[i]) THEN 0
                    ELSE w[i][1] * PowTen(w[i][3] - m) * (D \div w[i][2])]
        RECURSIVE gcdAll(_)
        gcdAll(i) == IF i = 0 THEN 0 ELSE GCD(gcdAll(i - 1), AbsInt(ints[i]))
        g == gcdAll(Len(w))
    IN  [i \in 1..Len(w) |-> ints[i] \div g]

\* let v = new Array(n).fill(1.0 / Math.sqrt(n))
StartDirection(n) == [i \in 1..n |-> 1]

\* a slip: norm <= 1e-12 in place of norm < 1e-12
NormVanishesInclusive(A, u) ==
    Le(NormSq(MatVec(A, u)), Mul(Dec(1, -24), NormSq(NumVec(u))))

\* if (norm < 1e-12) return 0
NormVanishes(A, u) == Lt(NormSq(MatVec(A, u)), Mul(Dec(1, -24), NormSq(NumVec(u))))

\* lines 82-90: lambda = v . (A v)
RayleighQuotient(A, u) ==
    Div(Inner(NumVec(u), MatVec(A, u), Len(u)), NormSq(NumVec(u)))

\* a slip: 1 / lambda without the - 1
MaxProfitRateOfNoMinus(lam) ==
    IF Le(lam, Dec(1, -9)) THEN Num(100) ELSE Div(Num(1), lam)

\* a slip: lambda < 1e-9 in place of lambda <= 1e-9
MaxProfitRateOfStrictCap(lam) ==
    IF Lt(lam, Dec(1, -9)) THEN Num(100) ELSE Sub(Div(Num(1), lam), Num(1))

\* lines 119-121
MaxProfitRateOf(lam) ==
    IF Le(lam, Dec(1, -9)) THEN Num(100) ELSE Sub(Div(Num(1), lam), Num(1))

\* The loop of lines 60-78 in one evaluation.  Its state is the direction u
\* of v, the counter iter, and whether the exit of line 75 was taken.  The
\* iterations are evaluated in blocks of LoopBlock, and these in blocks of
\* LoopBlock, which bounds the depth of the evaluation; s is the value of
\* st, evaluated once.
LoopBlock == 10

RECURSIVE PowerSteps(_, _, _)
PowerSteps(A, st, upto) ==
    CHOOSE last \in
        {IF s.vanished \/ s.iter = upto THEN s
         ELSE IF NormVanishes(A, s.u) THEN [s EXCEPT !.vanished = TRUE]
         ELSE PowerSteps(A, [s EXCEPT !.u = Direction(MatVec(A, s.u)),
                                      !.iter = s.iter + 1], upto) : s \in {st}} : TRUE

RECURSIVE PowerBlocks(_, _, _)
PowerBlocks(A, st, upto) ==
    CHOOSE last \in
        {IF s.vanished \/ s.iter = upto THEN s
         ELSE PowerBlocks(A, PowerSteps(A, s, MinInt(s.iter + LoopBlock, upto)), upto) :
             s \in {st}} : TRUE

RECURSIVE PowerLoop(_, _)
PowerLoop(A, st) ==
    CHOOSE last \in
        {IF s.vanished \/ s.iter = Iterations THEN s
         ELSE PowerLoop(A, PowerBlocks(A, s, MinInt(s.iter + LoopBlock * LoopBlock,
                                                    Iterations))) :
             s \in {st}} : TRUE

\* lines 51-93, in one evaluation (M is the value of A, evaluated once)
getDominantEigenvalue(A) ==
    CHOOSE value \in
        {IF Len(M) = 0 THEN Zero
         ELSE LET last == PowerLoop(M, [vanished |-> FALSE, iter |-> 0,
                                        u |-> StartDirection(Len(M))])
              IN  IF last.vanished THEN Zero ELSE RayleighQuotient(M, last.u) :
             M \in {A}} : TRUE

\* no request in flight
NoRequest == [pending |-> FALSE, args |-> <<>>]

\* a text: its fixed wording, and the prompt a generated text answers
String(text) == [text |-> text, prompt |-> <<>>]

\* the App and service state while no commentary or editing is modelled
SessionIdle ==
    /\ analysis = String("")
    /\ isAnalyzing = FALSE
    /\ request = NoRequest
    /\ ai = FALSE
    /\ calls = <<>>
    /\ edits = 0

\* the eigen state while no power iteration is modelled
EigenIdle ==
    /\ eigV = <<>>
    /\ eigIter = 0
    /\ lambda = Zero
    /\ maxProfitRate = Zero

----------------------------------------------------------------------------
(* calculateSraffianPrices (src/utils/math.ts)                             *)

\* 1e-6, the tolerance of the validity check
ValidityTol == Dec(1, -6)

\* A_ij = Q_ij / X_j, 0 when X_j is 0
CoefficientMatrix(Q, X) ==
    [i \in 1..Len(X) |->
        [j \in 1..Len(X) |-> IF IsZero(X[j]) THEN Zero ELSE Div(Q[i][j], X[j])]]

\* l_j = (L_j / X_j) * w, 0 when X_j is 0
UnitLabor(L, X, w) ==
    [j \in 1..Len(X) |-> IF IsZero(X[j]) THEN Zero ELSE Mul(Div(L[j], X[j]), w)]

\* a slip: A read as stored, A[row][col], instead of transposed
SystemMatrixUntransposed(A, r) ==
    LET Multiplier == Add(Num(1), r)
    IN  [row \in 1..Len(A) |->
            [col \in 1..Len(A) |->
                IF row = col THEN Sub(Num(1), Mul(Multiplier, A[row][col]))
                ELSE Mul(Neg(Multiplier), A[row][col])]]

\* [I - (1+r)A^T]
SystemMatrix(A, r) ==
    LET Multiplier == Add(Num(1), r)
    IN  [row \in 1..Len(A) |->
            [col \in 1..Len(A) |->
                IF row = col THEN Sub(Num(1), Mul(Multiplier, A[col][row]))
                ELSE Mul(Neg(Multiplier), A[col][row])]]

\* a slip: strict positivity, p > 0
IsValidPriceStrict(p) == Gt(p, Zero)

\* p > -1e-6
IsValidPrice(p) == Gt(p, Neg(ValidityTol))

\* a slip: an invalid solution is thrown away like a missing one
PricesResultDropInvalid(solved) ==
    IF solved.null \/ ~(\A i \in 1..Len(solved.x) : IsValidPrice(solved.x[i]))
    THEN [prices |-> <<>>, isValid |-> FALSE]
    ELSE [prices |-> solved.x, isValid |-> TRUE]

\* lines 184-191: the result built from the solver's answer
PricesResult(solved) ==
    IF solved.null THEN [prices |-> <<>>, isValid |-> FALSE]
    ELSE [prices |-> solved.x,
          isValid |-> \A i \in 1..Len(solved.x) : IsValidPrice(solved.x[i])]

calculateSraffianPrices(physicalMatrix, laborVector, totalOutputs, r, w) ==
    LET A == CoefficientMatrix(physicalMatrix, totalOutputs)
        l == UnitLabor(laborVector, totalOutputs, w)
    IN  PricesResult(solveLinearSystem(SystemMatrix(A, r), l))

\* lines 99-122, in one evaluation (lam is the value of lambda, evaluated
\* once)
calculateMaxProfitRate(physicalMatrix, totalOutputs) ==
    LET A == CoefficientMatrix(physicalMatrix, totalOutputs)
    IN  CHOOSE rate \in {MaxProfitRateOf(lam) : lam \in {getDominantEigenvalue(A)}} : TRUE

----------------------------------------------------------------------------
(* The national accounts and the cost breakdown (src/App.tsx)              *)

\* x || 0
OrZero(x) == IF IsNaN(x) THEN Zero ELSE x

NoAggregates == [null |-> TRUE]

\* lines 53-57: total wages, accumulated over the commodities
RECURSIVE TotalWages(_, _, _)
TotalWages(comms, w, j) ==
    IF j = 0 THEN Zero
    ELSE Add(TotalWages(comms, w, j - 1), Mul(w, comms[j].laborInput))

\* lines 63-68: the capital of industry j, accumulated over the inputs
RECURSIVE IndustryCapital(_, _, _, _)
IndustryCapital(Q, p, j, i) ==
    IF i = 0 THEN Zero
    ELSE Add(IndustryCapital(Q, p, j, i - 1), Mul(OrZero(p[i]), Q[i][j]))

\* lines 62-70: total capital, accumulated over the industries
RECURSIVE TotalCapital(_, _, _, _)
TotalCapital(Q, p, n, j) ==
    IF j = 0 THEN Zero
    ELSE Add(TotalCapital(Q, p, n, j - 1), IndustryCapital(Q, p, j, n))

\* a slip: the divisor is used as it is
DenominatorUnguarded(netProduct) == netProduct

\* const denom = netProduct === 0 ? 1 : netProduct
Denominator(netProduct) == IF IsZero(netProduct) THEN Num(1) ELSE netProduct

\* a slip: the share as a fraction, not a percentage
ShareFraction(term, denom) == Div(term, denom)

\* (term / denom) * 100
Share(term, denom) == Mul(Div(term, denom), Num(100))

\* lines 45-89
Aggregates(comms, Q, p, r, w) ==
    IF Len(p) = 0 THEN NoAggregates
    ELSE LET totalWages   == TotalWages(comms, w, Len(comms))
             totalCapital == TotalCapital(Q, p, Len(comms), Len(comms))
             totalProfits == Mul(totalCapital, r)
             netProduct   == Add(totalWages, totalProfits)
             denom        == Denominator(netProduct)
         IN  [null |-> FALSE,
              totalWages |-> totalWages,
              totalProfits |-> totalProfits,
              netProduct |-> netProduct,
              totalCapital |-> totalCapital,
              wageShare |-> Share(totalWages, denom),
              profitShare |-> Share(totalProfits, denom)]

NoBreakdown == [null |-> TRUE]

\* lines 141-147: the value of the inputs per unit of output idx
RECURSIVE ConstantCapital(_, _, _, _, _)
ConstantCapital(comms, Q, p, idx, i) ==
    IF i = 0 THEN Zero
    ELSE LET output == comms[idx].totalOutput
             a_ij   == IF Gt(output, Zero) THEN Div(Q[i][idx], output) ELSE Zero
         IN  Add(ConstantCapital(comms, Q, p, idx, i - 1), Mul(OrZero(p[i]), a_ij))

\* lines 137-153
getCostBreakdown(comms, Q, p, r, w, idx) ==
    IF Len(p) = 0 THEN NoBreakdown
    ELSE LET constantCapitalValue == ConstantCapital(comms, Q, p, idx, Len(comms))
         IN  [null |-> FALSE,
              idx |-> idx,
              constantCapitalValue |-> constantCapitalValue,
              profit |-> Mul(constantCapitalValue, r),
              wageCost |-> Mul(Div(comms[idx].laborInput, comms[idx].totalOutput), w),
              price |-> p[idx]]

\* the App state while no render is modelled
AppIdle ==
    /\ commodities = <<>>
    /\ matrix = <<>>
    /\ profitRate = Zero
    /\ wage = Zero
    /\ prices = <<>>
    /\ isValid = FALSE
    /\ aggregates = NoAggregates
    /\ breakdown = NoBreakdown
    /\ EigenIdle
    /\ SessionIdle

\* the solver state while no stepwise call is modelled
SolverIdle ==
    /\ argA = <<>>
    /\ argB = <<>>
    /\ aug = <<>>
    /\ step = 0
    /\ ret = Null

----------------------------------------------------------------------------
(* One call of solveLinearSystem, step by step.                            *)

\* the largest matrix dimension drawn
\* lines 8 and 10: what the caller's A holds once the working matrix is M.
\* With rows shared between A and aug the caller would see the rows of M.
CallerRowsShared(A, M) == [i \in 1..Len(A) |-> SubSeq(M[i], 1, Len(A))]

\* `[...row]` and `[...M[i], val]` build new arrays: no row of aug is a row of A
CallerRows(A, M) == A

\* line 10: `b.map` builds a new array, b itself is only read
CallerVector(b, M) == b

\* line 10, had aug outlived the call: an earlier call's matrix of the same
\* size is taken for this call's
WorkingCopyReused(A, b, left) ==
    IF Len(b) > 0 /\ Len(left) = Len(b) THEN left ELSE Augment(A, b)

\* line 10: `const aug` is built anew from A and b in every call; what an
\* earlier call left behind (left) is not read
WorkingCopy(A, b, left) == Augment(A, b)

MaxN == 2

\* the matrix entries, the right-hand sides and the decimal scalings drawn
SolveEntries == {Num(0), Num(1), Num(-2)}

SolveRhs(n) == {[i \in 1..n |-> Num(1)], [i \in 1..n |-> Num(IF i = 1 THEN -3 ELSE i)]}

SolveScales == {0, -10, -11}

Scaled(x, s) == Mk(x[1], x[2], x[3] + s)

SolveInit ==
    /\ pc = "solve"
    /\ \E n \in 0..MaxN, s \in SolveScales :
          /\ \E M \in [1..n -> [1..n -> SolveEntries]] :
                argA = [i \in 1..n |-> [j \in 1..n |-> Scaled(M[i][j], s)]]
          /\ argB \in SolveRhs(n)
    /\ aug = <<>>
    /\ step = 0
    /\ ret = Null
    /\ AppIdle

\* lines 6-10: the working copy
SolveCopy ==
    /\ pc = "solve"
    /\ aug' = WorkingCopy(argA, argB, aug)
    /\ step' = 1
    /\ pc' = "eliminate"
    /\ argA' = CallerRows(argA, aug')
    /\ argB' = CallerVector(argB, aug')
    /\ UNCHANGED <<ret, snapshotVars, renderVars, eigenVars, sessionVars>>

\* lines 12-25: pivot, swap, and the singular exit
SolveSingular ==
    /\ pc = "eliminate"
    /\ step <= Len(argA)
    /\ LET swapped == SwapRows(aug, step, MaxRow(aug, Len(argA), step, step + 1, step))
       IN  /\ IsSingularPivot(swapped[step][step])
           /\ aug' = swapped
    /\ ret' = Null
    /\ pc' = "returned"
    /\ argA' = CallerRows(argA, aug')
    /\ argB' = CallerVector(argB, aug')
    /\ UNCHANGED <<step, snapshotVars, renderVars, eigenVars, sessionVars>>

\* lines 12-34: pivot, swap, eliminate
SolveEliminate ==
    /\ pc = "eliminate"
    /\ step <= Len(argA)
    /\ LET swapped == SwapRows(aug, step, MaxRow(aug, Len(argA), step, step + 1, step))
       IN  /\ ~IsSingularPivot(swapped[step][step])
           /\ aug' = Eliminate(swapped, Len(argA), step)
    /\ step' = step + 1
    /\ argA' = CallerRows(argA, aug')
    /\ argB' = CallerVector(argB, aug')
    /\ UNCHANGED <<pc, ret, snapshotVars, renderVars, eigenVars, sessionVars>>

\* lines 36-45: back substitution and return
SolveBack ==
    /\ pc = "eliminate"
    /\ step > Len(argA)
    /\ ret' = Vector(BackSubstitute(aug, [i \in 1..Len(argA) |-> Zero], Len(argA), Len(argA)))
    /\ pc' = "returned"
    /\ UNCHANGED <<argA, argB, aug, step, snapshotVars, renderVars,
                 eigenVars, sessionVars>>

SolveNext == SolveCopy \/ SolveSingular \/ SolveEliminate \/ SolveBack

SpecSolve == SolveInit /\ [][SolveNext]_vars

----------------------------------------------------------------------------
(* One recomputation of the results from a snapshot: the prices            *)
(* (calculateSraffianPrices), the national accounts, one cost breakdown.   *)

Commodity(id, X, L) == [id |-> id, totalOutput |-> X, laborInput |-> L]

\* commodities.map(c => c.laborInput), commodities.map(c => c.totalOutput)
LaborVector(comms) == [j \in 1..Len(comms) |-> comms[j].laborInput]

TotalOutputs(comms) == [j \in 1..Len(comms) |-> comms[j].totalOutput]

\* the (totalOutput, laborInput) pairs and the matrix entries of the grid
GridKinds == {<<Num(100), Num(10)>>, <<Num(0), Num(10)>>}

GridInputs == {Num(0), Num(40)}

GridRates == {Frac(1, 4), Num(4)}

GridWages == {Num(0), Num(1)}

\* a snapshot of the grid: any kinds, any matrix over the grid entries
GridSnapshot ==
    \E n \in 0..MaxN :
        \E kinds \in [1..n -> GridKinds], Q \in [1..n -> [1..n -> GridInputs]] :
            /\ commodities = [j \in 1..n |-> Commodity(j, kinds[j][1], kinds[j][2])]
            /\ matrix = Q
            /\ profitRate \in GridRates
            /\ wage \in GridWages

\* INITIAL_COMMODITIES and INITIAL_MATRIX
INITIAL_COMMODITIES == <<Commodity(1, Num(575), Num(18)), Commodity(2, Num(20), Num(12))>>

INITIAL_MATRIX == <<<<Num(280), Num(120)>>, <<Num(12), Num(8)>>>>

\* the initial system at several profit rates, and one-commodity systems:
\* no surplus (input = output), and labour inputs that put a price at and
\* just inside the validity tolerance
SpecialSnapshot ==
    \/ /\ commodities = INITIAL_COMMODITIES
       /\ matrix = INITIAL_MATRIX
       /\ profitRate \in {Num(0), Frac(3, 20), Frac(1, 4), Num(1)}
       /\ wage \in {Num(1), Num(2)}
    \/ /\ \E L \in {Num(10), Dec(1, -4), Dec(1, -5)} :
             commodities = <<Commodity(1, Num(100), L)>>
       /\ \E Q \in {Num(40), Num(100)} : matrix = <<<<Q>>>>
       /\ profitRate \in {Frac(3, 20), Num(1), Num(4)}
       /\ wage = Num(1)

PricesInit ==
    /\ pc = "metrics"
    /\ (GridSnapshot \/ SpecialSnapshot)
    /\ prices = <<>>
    /\ isValid = FALSE
    /\ aggregates = NoAggregates
    /\ breakdown = NoBreakdown
    /\ SolverIdle
    /\ EigenIdle
    /\ SessionIdle

\* App.tsx lines 29-42: metrics
ComputeMetrics ==
    /\ pc = "metrics"
    /\ LET result == calculateSraffianPrices(matrix, LaborVector(commodities),
                                             TotalOutputs(commodities), profitRate, wage)
       IN  /\ prices' = result.prices
           /\ isValid' = result.isValid
    /\ pc' = "aggregates"
    /\ UNCHANGED <<solverVars, snapshotVars, aggregates, breakdown,
                 eigenVars, sessionVars>>

\* App.tsx lines 45-89: aggregates
ComputeAggregates ==
    /\ pc = "aggregates"
    /\ aggregates' = Aggregates(commodities, matrix, prices, profitRate, wage)
    /\ pc' = "breakdown"
    /\ UNCHANGED <<solverVars, snapshotVars, prices, isValid, breakdown,
                 eigenVars, sessionVars>>

\* App.tsx lines 137-153: getCostBreakdown(idx), for a commodity of the list
CostBreakdown ==
    /\ pc = "breakdown"
    /\ \E idx \in 1..Len(commodities) :
          breakdown' = getCostBreakdown(commodities, matrix, prices, profitRate, wage, idx)
    /\ pc' = "rendered"
    /\ UNCHANGED <<solverVars, snapshotVars, prices, isValid, aggregates,
                 eigenVars, sessionVars>>

PricesNext == ComputeMetrics \/ ComputeAggregates \/ CostBreakdown

SpecPrices == PricesInit /\ [][PricesNext]_vars

----------------------------------------------------------------------------
(* The metrics from a snapshot, with the power iteration step by step:     *)
(* calculateMaxProfitRate, then calculateSraffianPrices.  The snapshots    *)
(* are systems whose iterate keeps a small direction; SpecPrices starts    *)
(* after the power iteration and leaves maxProfitRate aside.               *)

\* every entry q
UniformMatrix(n, q) == [i \in 1..n |-> [j \in 1..n |-> q]]

\* q on the diagonal
DiagonalMatrix(n, q) == [i \in 1..n |-> [j \in 1..n |-> IF i = j THEN q ELSE Zero]]

\* commodity i is an input of commodity i + 1 only, the last one of the first
CyclicMatrix(n, q1, q2) ==
    [i \in 1..n |-> [j \in 1..n |->
        IF j = (i % n) + 1 THEN (IF i = 1 THEN q1 ELSE q2) ELSE Zero]]

\* equal diagonal and one entry above it; and a matrix of rank one
JordanMatrix == <<<<Num(40), Num(40)>>, <<Num(0), Num(40)>>>>

RankOneMatrix == <<<<Num(30), Num(30)>>, <<Num(10), Num(10)>>>>

RateInputs == {Num(0), Num(40), Num(50)}

\* inputs that put the one coefficient at 1e-9 and 2e-9
TinyInputs == {Dec(1, -7), Dec(2, -7)}

RateRates == {Num(0), Num(1), Dec(17, -1), Num(4), Num(200)}

\* systems of equal commodities (output 100, labour 10) at wage 1; one
\* commodity at wage 0; one commodity with a labour input that puts the
\* price inside the validity tolerance
RateSnapshot ==
    \/ /\ \E n \in 0..MaxN :
            /\ commodities = [j \in 1..n |-> Commodity(j, Num(100), Num(10))]
            /\ \/ /\ \E q \in RateInputs : matrix = UniformMatrix(n, q)
                  /\ profitRate \in RateRates
               \/ /\ \E q \in RateInputs : matrix = DiagonalMatrix(n, q)
                  /\ profitRate \in RateRates
               \/ /\ matrix = CyclicMatrix(n, Num(50), Num(25))
                  /\ profitRate \in RateRates \ {Num(200)}
       /\ wage = Num(1)
    \/ /\ commodities = <<Commodity(1, Num(100), Num(10)), Commodity(2, Num(100), Num(10))>>
       /\ matrix \in {JordanMatrix, RankOneMatrix}
       /\ profitRate \in RateRates \cup {Dec(1499, -3)}
       /\ wage = Num(1)
    \/ /\ commodities = <<Commodity(1, Num(100), Num(10))>>
       /\ \E q \in RateInputs : matrix = UniformMatrix(1, q)
       /\ profitRate \in RateRates
       /\ wage = Num(0)
    \/ /\ commodities = <<Commodity(1, Num(100), Dec(1, -5))>>
       /\ matrix = <<<<Num(40)>>>>
       /\ profitRate \in {Num(1), Num(4)}
       /\ wage = Num(1)
    \/ /\ commodities = <<Commodity(1, Num(100), Num(10))>>
       /\ \E q \in TinyInputs : matrix = <<<<q>>>>
       /\ profitRate \in {Num(0), Num(1)}
       /\ wage = Num(1)
    \/ /\ \/ /\ commodities = <<Commodity(1, Num(0), Num(10))>>
             /\ matrix = <<<<Num(40)>>>>
          \/ /\ commodities = <<Commodity(1, Num(100), Num(10)), Commodity(2, Num(100), Num(10))>>
             /\ matrix = CyclicMatrix(2, Num(100), Num(25))
          \/ /\ commodities = <<Commodity(1, Num(100), Num(10)), Commodity(2, Num(0), Num(10))>>
             /\ matrix = UniformMatrix(2, Num(40))
       /\ profitRate \in {Num(0), Num(1)}
       /\ wage = Num(1)

MaxRateInit ==
    /\ pc = "maxrate"
    /\ RateSnapshot
    /\ prices = <<>>
    /\ isValid = FALSE
    /\ aggregates = NoAggregates
    /\ breakdown = NoBreakdown
    /\ SolverIdle
    /\ EigenIdle
    /\ SessionIdle

\* the matrix A that calculateMaxProfitRate builds (math.ts lines 107-117)
RateA == CoefficientMatrix(matrix, TotalOutputs(commodities))

\* math.ts line 53: if (n === 0) return 0
EigenEmpty ==
    /\ pc = "maxrate"
    /\ Len(commodities) = 0
    /\ lambda' = Zero
    /\ pc' = "cap"
    /\ UNCHANGED <<solverVars, snapshotVars, renderVars, eigV, eigIter,
                 maxProfitRate, sessionVars>>

\* math.ts lines 56-60: the start vector
EigenStart ==
    /\ pc = "maxrate"
    /\ Len(commodities) > 0
    /\ eigV' = StartDirection(Len(commodities))
    /\ eigIter' = 0
    /\ pc' = "power"
    /\ UNCHANGED <<solverVars, snapshotVars, renderVars, lambda,
                 maxProfitRate, sessionVars>>

\* math.ts lines 60-78: one iteration, v = A v / norm
PowerIterate ==
    /\ pc = "power"
    /\ eigIter < Iterations
    /\ ~NormVanishes(RateA, eigV)
    /\ eigV' = Direction(MatVec(RateA, eigV))
    /\ eigIter' = eigIter + 1
    /\ UNCHANGED <<pc, solverVars, snapshotVars, renderVars, lambda,
                 maxProfitRate, sessionVars>>

\* math.ts line 75: if (norm < 1e-12) return 0
PowerVanish ==
    /\ pc = "power"
    /\ eigIter < Iterations
    /\ NormVanishes(RateA, eigV)
    /\ lambda' = Zero
    /\ pc' = "cap"
    /\ UNCHANGED <<solverVars, snapshotVars, renderVars, eigV, eigIter,
                 maxProfitRate, sessionVars>>

\* math.ts lines 80-92: the Rayleigh quotient after the last iteration
Rayleigh ==
    /\ pc = "power"
    /\ eigIter = Iterations
    /\ lambda' = RayleighQuotient(RateA, eigV)
    /\ pc' = "cap"
    /\ UNCHANGED <<solverVars, snapshotVars, renderVars, eigV, eigIter,
                 maxProfitRate, sessionVars>>

\* math.ts lines 119-121: the cap and R = 1 / lambda - 1
CapRate ==
    /\ pc = "cap"
    /\ maxProfitRate' = MaxProfitRateOf(lambda)
    /\ pc' = "metrics"
    /\ UNCHANGED <<solverVars, snapshotVars, renderVars, eigV, eigIter,
                 lambda, sessionVars>>

MaxRateNext ==
    EigenEmpty \/ EigenStart \/ PowerIterate \/ PowerVanish \/ Rayleigh \/ CapRate
        \/ ComputeMetrics

SpecMaxRate == MaxRateInit /\ [][MaxRateNext]_vars

----------------------------------------------------------------------------
(* One call of getDominantEigenvalue(A), step by step, for A given         *)
(* directly: every total output is 1, so that the coefficient matrix is    *)
(* the input matrix itself.  SpecEigenFair adds that a call in progress    *)
(* keeps running; the fairness is stated on the shape of a step (position  *)
(* and counter), which is enabled exactly while the call has not returned. *)

\* [[0, 1], [0, 0]]: A.(1,1) = (1,0) and A.(1,0) = 0
NilpotentMatrix == <<<<Num(0), Num(1)>>, <<Num(0), Num(0)>>>>

\* the diagonal entries drawn: zero, the identity, and entries that put the
\* norm of A.v just below, at and above 1e-12
EigenDiagonals == {Num(0), Num(1), Dec(6, -1), Dec(1, -13), Dec(1, -12), Dec(2, -12)}

EigenSnapshot ==
    /\ \/ \E n \in 0..MaxN :
            /\ commodities = [j \in 1..n |-> Commodity(j, Num(1), Num(1))]
            /\ \/ \E q \in EigenDiagonals : matrix = DiagonalMatrix(n, q)
               \/ \E q \in {Dec(5, -1)} : matrix = UniformMatrix(n, q)
               \/ matrix = CyclicMatrix(n, Num(1), Dec(25, -2))
       \/ /\ commodities = <<Commodity(1, Num(1), Num(1)), Commodity(2, Num(1), Num(1))>>
          /\ matrix \in {NilpotentMatrix,
                         <<<<Dec(4, -1), Dec(4, -1)>>, <<Num(0), Dec(4, -1)>>>>,
                         <<<<Dec(3, -1), Dec(3, -1)>>, <<Dec(1, -1), Dec(1, -1)>>>>}
    /\ profitRate = Frac(3, 20)
    /\ wage = Num(1)

EigenInit ==
    /\ pc = "maxrate"
    /\ EigenSnapshot
    /\ prices = <<>>
    /\ isValid = FALSE
    /\ aggregates = NoAggregates
    /\ breakdown = NoBreakdown
    /\ SolverIdle
    /\ EigenIdle
    /\ SessionIdle

EigenNext == EigenEmpty \/ EigenStart \/ PowerIterate \/ PowerVanish \/ Rayleigh

SpecEigen == EigenInit /\ [][EigenNext]_vars

\* a step of a call in progress: the position changes or iter is incremented
\* (every step of EigenNext is one, and one is possible until the return)
EigenRuns ==
    /\ pc \in {"maxrate", "power"}
    /\ pc' \in {"power", "cap"}
    /\ eigIter' \in {0, eigIter + 1}
    /\ (pc' # pc \/ eigIter' = eigIter + 1)

\* the engine runs a synchronous call to its end
SpecEigenFair == SpecEigen /\ WF_<<pc, eigIter>>(EigenRuns)

----------------------------------------------------------------------------
(* Calls of calculateSraffianPrices one after another, each with the       *)
(* solver step by step.  The solver's variables keep between two calls     *)
(* what the earlier call left in them, and calls records every call with   *)
(* its arguments and its result.                                           *)

\* the number of calls followed
MaxCalls == 3

\* the arguments drawn: the initial system at three profit rates (valid
\* prices, no solution, negative prices) and a one-commodity system
CallSnapshots ==
    {[commodities |-> INITIAL_COMMODITIES, matrix |-> INITIAL_MATRIX,
      profitRate |-> rate, wage |-> Num(1)] :
        rate \in {Frac(3, 20), Frac(1, 4), Num(1)}}
    \cup {[commodities |-> <<Commodity(1, Num(100), Num(10))>>,
           matrix |-> <<<<Num(40)>>>>, profitRate |-> Frac(3, 20), wage |-> Num(2)]}

CallsInit ==
    /\ pc = "idle"
    /\ SolverIdle
    /\ AppIdle

\* lines 128-181: A, l and the system matrix, then the call of the solver
CallPrices ==
    /\ pc = "idle"
    /\ Len(calls) < MaxCalls
    /\ \E args \in CallSnapshots :
          /\ commodities' = args.commodities
          /\ matrix' = args.matrix
          /\ profitRate' = args.profitRate
          /\ wage' = args.wage
          /\ LET X == TotalOutputs(args.commodities)
                 A == CoefficientMatrix(args.matrix, X)
             IN  /\ argA' = SystemMatrix(A, args.profitRate)
                 /\ argB' = UnitLabor(LaborVector(args.commodities), X, args.wage)
    /\ pc' = "solve"
    /\ UNCHANGED <<aug, step, ret, renderVars, eigenVars, sessionVars>>

\* lines 182-191: the result built from what the solver returned
ReturnPrices ==
    /\ pc = "returned"
    /\ LET result == PricesResult(ret)
       IN  /\ prices' = result.prices
           /\ isValid' = result.isValid
           /\ calls' = Append(calls, [commodities |-> commodities, matrix |-> matrix,
                                      profitRate |-> profitRate, wage |-> wage,
                                      result |-> result])
    /\ pc' = "idle"
    /\ UNCHANGED <<solverVars, snapshotVars, aggregates, breakdown, eigenVars,
                   analysis, isAnalyzing, request, ai, edits>>

CallsNext ==
    \/ CallPrices
    \/ SolveCopy
    \/ SolveSingular
    \/ SolveEliminate
    \/ SolveBack
    \/ ReturnPrices

SpecCalls == CallsInit /\ [][CallsNext]_vars

----------------------------------------------------------------------------
(* The editing handlers of the App (src/App.tsx) and of MatrixInput        *)
(* (src/unnamed/part_000), from the initial state.  A handler runs when    *)
(* the last render is complete and leaves pc = "render": the state is set  *)
(* and the results are recomputed before the next handler runs.  Indices   *)
(* are 1-based here; the name of a commodity is not carried.  SpecEdit     *)
(* leaves maxProfitRate aside as SpecPrices does, and the cost breakdowns, *)
(* which set no state, to SpecPrices.                                      *)

\* The text of an input field is the sequence of its characters.
DigitChars == <<"0", "1", "2", "3", "4", "5", "6", "7", "8", "9">>

IsDigit(c) == \E k \in 1..10 : DigitChars[k] = c

DigitValue(c) == (CHOOSE k \in 1..10 : DigitChars[k] = c) - 1

\* the digits of str from position i on: their value after acc, their
\* number, and the position after them
RECURSIVE ParseDigits(_, _, _, _)
ParseDigits(str, i, acc, count) ==
    IF i <= Len(str) /\ IsDigit(str[i])
    THEN ParseDigits(str, i + 1, 10 * acc + DigitValue(str[i]), count + 1)
    ELSE [value |-> acc, count |-> count, next |-> i]

\* parseFloat for texts without an exponent part: leading blanks, a sign,
\* digits, a point and digits; NaN when no digit is found; what follows the
\* number is ignored
ParseFloat(str) ==
    LET RECURSIVE SkipBlanks(_)
        SkipBlanks(i) == IF i <= Len(str) /\ str[i] = " " THEN SkipBlanks(i + 1) ELSE i
        start    == SkipBlanks(1)
        signed   == start <= Len(str) /\ str[start] \in {"-", "+"}
        negative == signed /\ str[start] = "-"
        whole    == ParseDigits(str, IF signed THEN start + 1 ELSE start, 0, 0)
        pointed  == whole.next <= Len(str) /\ str[whole.next] = "."
        part     == IF pointed THEN ParseDigits(str, whole.next + 1, whole.value, 0)
                    ELSE [value |-> whole.value, count |-> 0, next |-> whole.next]
        value    == Dec(part.value, -part.count)
    IN  IF whole.count + part.count = 0 THEN NaN
        ELSE IF negative THEN Neg(value) ELSE value

\* the number of editing operations followed
MaxEdits == 3

\* the texts typed into a field: "" and "100.0x"
EditTexts == {<<>>, <<"1", "0", "0", ".", "0", "x">>}

EditFields == {"totalOutput", "laborInput"}

\* the state is set and the results are to be recomputed
Rerender == pc' = "render"

\* App.tsx lines 21-27, before the first render
EditInit ==
    /\ pc = "render"
    /\ commodities = INITIAL_COMMODITIES
    /\ matrix = INITIAL_MATRIX
    /\ profitRate = Frac(3, 20)
    /\ wage = Num(1)
    /\ prices = <<>>
    /\ isValid = FALSE
    /\ aggregates = NoAggregates
    /\ breakdown = NoBreakdown
    /\ SolverIdle
    /\ EigenIdle
    /\ SessionIdle

\* metrics and aggregates are computed from the current state
RenderComplete == pc = "breakdown"

\* a handler can run: the render is complete and the budget is not used up
CanEdit ==
    /\ RenderComplete
    /\ edits < MaxEdits

\* App.tsx lines 91-93
handleMatrixUpdate(newMatrix) ==
    /\ matrix' = newMatrix
    /\ Rerender
    /\ UNCHANGED <<commodities, profitRate, wage>>

\* part_000 lines 22-28
handleMatrixChange(row, col, val) ==
    LET num == ParseFloat(val)
    IN  IF IsNaN(num) THEN UNCHANGED <<pc, snapshotVars>>
        ELSE handleMatrixUpdate([matrix EXCEPT ![row][col] = num])

\* App.tsx lines 95-99
handleCommodityUpdate(index, field, value) ==
    /\ commodities' = [commodities EXCEPT ![index] = [@ EXCEPT ![field] = value]]
    /\ Rerender
    /\ UNCHANGED <<matrix, profitRate, wage>>

\* Math.max(...commodities.map(c => c.id)) || 0
MaxIdOrZero(comms) ==
    LET ids == {comms[k].id : k \in 1..Len(comms)}
    IN  CHOOSE id \in ids : \A other \in ids : other <= id

\* a slip: the new id is the length of the list + 1
NewIdByLength(comms) == Len(comms) + 1

\* line 102
NewId(comms) == MaxIdOrZero(comms) + 1

\* App.tsx lines 101-115
handleAddCommodity ==
    /\ LET newComm == Commodity(NewId(commodities), Num(100), Num(10))
           intermediateMatrix == [k \in 1..Len(matrix) |-> Append(matrix[k], Num(0))]
           newRow == [k \in 1..Len(commodities) + 1 |-> Num(0)]
       IN  /\ commodities' = Append(commodities, newComm)
           /\ matrix' = Append(intermediateMatrix, newRow)
    /\ Rerender
    /\ UNCHANGED <<profitRate, wage>>

\* xs.filter((_, i) => i !== index)
Without(xs, index) ==
    [k \in 1..(Len(xs) - (IF index \in 1..Len(xs) THEN 1 ELSE 0)) |->
        IF k < index THEN xs[k] ELSE xs[k + 1]]

\* line 118
CannotRemove(comms) == Len(comms) <= 1

\* a slip: the row is removed and the column is kept
RemovedRowOnly(Q, index) == Without(Q, index)

\* lines 122-124: the row and the column of the commodity removed
Removed(Q, index) ==
    [k \in 1..Len(Without(Q, index)) |-> Without(Without(Q, index)[k], index)]

\* App.tsx lines 117-128
handleRemoveCommodity(index) ==
    IF CannotRemove(commodities) THEN UNCHANGED <<pc, snapshotVars>>
    ELSE /\ commodities' = Without(commodities, index)
         /\ matrix' = Removed(matrix, index)
         /\ Rerender
         /\ UNCHANGED <<profitRate, wage>>

\* what no editing handler sets
HandlerFrame ==
    UNCHANGED <<solverVars, renderVars, eigenVars, analysis, isAnalyzing,
                request, ai, calls>>

\* an editing operation counted
EditFrame ==
    /\ edits' = edits + 1
    /\ HandlerFrame

EditMatrixCell ==
    /\ CanEdit
    /\ \E row \in 1..Len(commodities), col \in 1..Len(commodities), val \in EditTexts :
          handleMatrixChange(row, col, val)
    /\ EditFrame

\* part_000 lines 92 and 143: the field is given parseFloat of the text
EditCommodity ==
    /\ CanEdit
    /\ \E index \in 1..Len(commodities), field \in EditFields, val \in EditTexts :
          handleCommodityUpdate(index, field, ParseFloat(val))
    /\ EditFrame

AddCommodity ==
    /\ CanEdit
    /\ handleAddCommodity
    /\ EditFrame

RemoveCommodity ==
    /\ CanEdit
    /\ \E index \in 1..Len(commodities) : handleRemoveCommodity(index)
    /\ EditFrame

\* the render starts; calculateMaxProfitRate is left aside
RenderPrices ==
    /\ pc = "render"
    /\ pc' = "metrics"
    /\ UNCHANGED <<solverVars, snapshotVars, renderVars, eigenVars, sessionVars>>

EditNext ==
    \/ EditMatrixCell
    \/ EditCommodity
    \/ AddCommodity
    \/ RemoveCommodity
    \/ RenderPrices
    \/ ComputeMetrics
    \/ ComputeAggregates

SpecEdit == EditInit /\ [][EditNext]_vars

----------------------------------------------------------------------------
(* The commentary: handleAnalyze (src/App.tsx) and analyzeEconomy          *)
(* (src/services/gemini.ts).  A click captures the state of the render it  *)
(* happens in and leaves the call in flight; the call settles in a later   *)
(* task, between two renders.  The state is edited meanwhile by the        *)
(* handlers above, here on a one-commodity system whose power iteration    *)
(* is evaluated in one step, so that the metrics are recomputed in full;   *)
(* the editing operations are not counted, each may recur without end.     *)

\* x.toFixed(digits): the nearest multiple of 10^-digits to x, the larger
\* one of two, written with its sign; units is its count of 10^-digits
ToFixed(x, digits) ==
    IF IsNaN(x) THEN [text |-> "NaN", negative |-> FALSE, units |-> 0]
    ELSE IF IsInf(x) THEN [text |-> "Infinity", negative |-> x[1] < 0, units |-> 0]
    ELSE LET shift == x[3] + digits
             num   == AbsInt(x[1]) * (IF shift >= 0 THEN PowTen(shift) ELSE 1)
             den   == x[2] * (IF shift >= 0 THEN 1 ELSE PowTen(-shift))
         IN  [text |-> "fixed", negative |-> x[1] < 0,
              units |-> (2 * num + den) \div (2 * den)]

\* gemini.ts lines 23-48: what the prompt says of its arguments.  A number
\* written into the text as it is stands for itself.
Prompt(comms, Q, r, p, valid) ==
    [rate   |-> ToFixed(Mul(r, Num(100)), 1),
     system |-> [idx \in 1..Len(comms) |->
                    [produces |-> comms[idx].totalOutput,
                     inputs   |-> [i \in 1..Len(Q) |-> Q[i][idx]],
                     labor    |-> comms[idx].laborInput]],
     valid  |-> valid,
     prices |-> IF valid
                THEN [i \in 1..Len(comms) |->
                         IF i <= Len(p) THEN ToFixed(p[i], 2)
                         ELSE [text |-> "undefined", negative |-> FALSE, units |-> 0]]
                ELSE <<>>]

\* line 24: commodities[i].name for every row i of the matrix raises a
\* TypeError when the matrix has more rows than there are commodities
PromptRaises(comms, Q) == Len(comms) >= 1 /\ Len(Q) > Len(comms)

\* what generateContent does with a prompt: a text, no text, or a failure
ServiceReplies == {"text", "empty", "failure"}

\* a slip: the failure of generateContent is not caught
analyzeEconomyUncaught(client, comms, Q, r, p, valid, reply) ==
    IF ~client THEN [raised |-> FALSE, value |-> String("Gemini API Key not configured.")]
    ELSE IF PromptRaises(comms, Q) \/ reply = "failure"
         THEN [raised |-> TRUE, value |-> String("")]
    ELSE IF reply = "empty"
         THEN [raised |-> FALSE, value |-> String("No analysis generated.")]
    ELSE [raised |-> FALSE,
          value |-> [text |-> "generated", prompt |-> <<Prompt(comms, Q, r, p, valid)>>]]

\* gemini.ts lines 14-60: the outcome of the call for a reply of the service
analyzeEconomy(client, comms, Q, r, p, valid, reply) ==
    IF ~client THEN [raised |-> FALSE, value |-> String("Gemini API Key not configured.")]
    ELSE IF PromptRaises(comms, Q) THEN [raised |-> TRUE, value |-> String("")]
    ELSE IF reply = "failure"
         THEN [raised |-> FALSE,
               value |-> String("Error generating analysis. Please check API key and limits.")]
    ELSE IF reply = "empty"
         THEN [raised |-> FALSE, value |-> String("No analysis generated.")]
    ELSE [raised |-> FALSE,
          value |-> [text |-> "generated", prompt |-> <<Prompt(comms, Q, r, p, valid)>>]]

\* the arguments of the call, as the state of the current render gives them
CurrentArguments ==
    [commodities |-> commodities, matrix |-> matrix, profitRate |-> profitRate,
     prices |-> prices, isValid |-> isValid]

\* a slip: the arguments are read when the call settles
ArgumentsAtSettle(captured, current) == current

\* App.tsx line 132: the arguments are evaluated when the call is made
Arguments(captured, current) == captured

\* the texts typed into the first cell, the first labour field and the
\* profit rate field
CellTexts == {<<"0">>}

LaborTexts == {<<"2", "0">>}

RateTexts == {<<"1">>}

\* gemini.ts lines 4-12 and App.tsx lines 21-27: the client is there or is
\* null; a one-commodity system before its first render
AnalyzeInit ==
    /\ pc = "render"
    /\ commodities = <<Commodity(1, Num(100), Num(10))>>
    /\ matrix = <<<<Num(40)>>>>
    /\ profitRate = Frac(3, 20)
    /\ wage = Num(1)
    /\ prices = <<>>
    /\ isValid = FALSE
    /\ aggregates = NoAggregates
    /\ breakdown = NoBreakdown
    /\ SolverIdle
    /\ EigenIdle
    /\ analysis = String("")
    /\ isAnalyzing = FALSE
    /\ request = NoRequest
    /\ ai \in BOOLEAN
    /\ calls = <<>>
    /\ edits = 0

\* App.tsx line 33: maxProfitRate, at the start of the metrics
ComputeMaxProfitRate ==
    /\ pc = "render"
    /\ maxProfitRate' = calculateMaxProfitRate(matrix, TotalOutputs(commodities))
    /\ pc' = "metrics"
    /\ UNCHANGED <<solverVars, snapshotVars, renderVars, eigV, eigIter,
                   lambda, sessionVars>>

EditFirstCell ==
    /\ RenderComplete
    /\ \E val \in CellTexts : handleMatrixChange(1, 1, val)
    /\ HandlerFrame
    /\ UNCHANGED edits

EditFirstLabor ==
    /\ RenderComplete
    /\ \E val \in LaborTexts : handleCommodityUpdate(1, "laborInput", ParseFloat(val))
    /\ HandlerFrame
    /\ UNCHANGED edits

\* App.tsx line 222: setProfitRate(parseFloat(e.target.value))
EditProfitRate ==
    /\ RenderComplete
    /\ \E val \in RateTexts : profitRate' = ParseFloat(val)
    /\ Rerender
    /\ UNCHANGED <<commodities, matrix, wage>>
    /\ HandlerFrame
    /\ UNCHANGED edits

\* App.tsx lines 130-132, up to the await; the button is disabled while
\* isAnalyzing (line 409)
handleAnalyze ==
    /\ RenderComplete
    /\ ~isAnalyzing
    /\ isAnalyzing' = TRUE
    /\ request' = [pending |-> TRUE, args |-> <<CurrentArguments>>]
    /\ UNCHANGED <<pc, solverVars, snapshotVars, renderVars, eigenVars,
                   analysis, ai, calls, edits>>

\* gemini.ts lines 21-59 and App.tsx lines 132-134: the call settles; when
\* it raises, the handler ends at the await and sets nothing
AnalyzeSettles ==
    /\ RenderComplete
    /\ request.pending
    /\ \E reply \in ServiceReplies :
          LET args    == Arguments(request.args[1], CurrentArguments)
              outcome == analyzeEconomy(ai, args.commodities, args.matrix,
                                        args.profitRate, args.prices, args.isValid, reply)
          IN  IF outcome.raised THEN UNCHANGED <<analysis, isAnalyzing>>
              ELSE /\ analysis' = outcome.value
                   /\ isAnalyzing' = FALSE
    /\ request' = NoRequest
    /\ UNCHANGED <<pc, solverVars, snapshotVars, renderVars, eigenVars,
                   ai, calls, edits>>

AnalyzeNext ==
    \/ handleAnalyze
    \/ AnalyzeSettles
    \/ EditFirstCell
    \/ EditFirstLabor
    \/ EditProfitRate
    \/ ComputeMaxProfitRate
    \/ ComputeMetrics
    \/ ComputeAggregates

SpecAnalyze == AnalyzeInit /\ [][AnalyzeNext]_vars

\* a render in progress goes on: the shape of its steps
RenderRuns ==
    /\ pc \in {"render", "metrics", "aggregates"}
    /\ pc' \in {"metrics", "aggregates", "breakdown"}
    /\ pc' # pc

\* a call in flight settles at the end of a render: the reply is taken
\* up between two tasks, whatever the handlers do
CallSettles ==
    /\ RenderComplete
    /\ request.pending
    /\ request' = NoRequest

SpecAnalyzeFair ==
    SpecAnalyze /\ WF_<<pc>>(RenderRuns) /\ SF_<<request>>(CallSettles)

----------------------------------------------------------------------------
(* Properties of solveLinearSystem, under SpecSolve.                       *)

\* the matrix without row r and column c
Minor(A, r, c) ==
    [i \in 1..(Len(A) - 1) |->
        [j \in 1..(Len(A) - 1) |->
            A[IF i < r THEN i ELSE i + 1][IF j < c THEN j ELSE j + 1]]]

\* the determinant, expanded along the first row
RECURSIVE Det(_)
Det(A) ==
    IF Len(A) = 0 THEN Num(1)
    ELSE LET term(c) == Mul(Mul(Num(IF c % 2 = 1 THEN 1 ELSE -1), A[1][c]),
                            Det(Minor(A, 1, c)))
             RECURSIVE sum(_)
             sum(c) == IF c = 0 THEN Zero ELSE Add(sum(c - 1), term(c))
         IN  sum(Len(A))

\* component i of A.x
RECURSIVE Dot(_, _, _)
Dot(row, x, j) == IF j = 0 THEN Zero ELSE Add(Dot(row, x, j - 1), Mul(row[j], x[j]))

\* A.x equals b within tol in every component
SolvesWithin(A, x, b, tol) ==
    \A i \in 1..Len(A) : Le(Abs(Sub(Dot(A[i], x, Len(A)), b[i])), tol)

\* the pivot of the current step is the largest of its column and is below 1e-10
PivotBelowTolerance ==
    /\ step \in 1..Len(argA)
    /\ Lt(Abs(aug[step][step]), Dec(1, -10))
    /\ \A k \in step..Len(argA) : Le(Abs(aug[k][step]), Abs(aug[step][step]))

\* C1 as stated: for every non-singular A, solveLinearSystem returns a vector
\* x, not the no-solution value, with A.x = b within 1e-6 in every component.
C1_NonSingularSolved ==
    (pc = "returned" /\ ~IsZero(Det(argA)))
        => ~ret.null /\ SolvesWithin(argA, ret.x, argB, Dec(1, -6))

\* C1 amended: solveLinearSystem returns the no-solution value exactly when
\* the pivot it stopped at (the largest entry of its column among the
\* remaining rows) is below 1e-10 in magnitude, which happens for every
\* singular A and also for non-singular A with such a pivot; in every other
\* case it returns x with A.x = b within 1e-6 (exactly, in exact arithmetic).
C1_SolvedUnlessTinyPivot ==
    pc = "returned" =>
        IF ret.null THEN PivotBelowTolerance
        ELSE /\ step = Len(argA) + 1
             /\ ~IsZero(Det(argA))
             /\ Len(ret.x) = Len(argA)
             /\ SolvesWithin(argA, ret.x, argB, Dec(1, -6))
             /\ SolvesWithin(argA, ret.x, argB, Zero)

\* C1 witness: a 2x2 system that needed a row swap was solved.
C1_Witness ==
    /\ pc = "returned" /\ ~ret.null
    /\ Len(argA) = 2 /\ IsZero(argA[1][1])
    /\ ~IsZero(ret.x[1]) /\ ~IsZero(ret.x[2])

HasZeroRow(A) == \E i \in 1..Len(A) : \A j \in 1..Len(A) : IsZero(A[i][j])

\* C2: whenever, at an elimination step, every entry of the step's column in
\* the remaining rows is below 1e-10 in magnitude (so the pivot swapped in
\* is), the call returns the no-solution value at that step; and a matrix
\* with an all-zero row always ends in the no-solution value.
C2_TinyPivotReturnsNull ==
    /\ [][(/\ pc = "eliminate"
           /\ step \in 1..Len(argA)
           /\ \A k \in step..Len(argA) : Lt(Abs(aug[k][step]), Dec(1, -10)))
          => (pc' = "returned" /\ ret' = Null)]_vars
    /\ [](pc = "returned" /\ HasZeroRow(argA) => ret = Null)
    /\ [](pc = "returned" => (ret = Null \/ (~ret.null /\ Len(ret.x) = Len(argA))))

\* C2 witness: the call returned no-solution at the second step on a pivot
\* that is not zero but below the tolerance.
C2_Witness ==
    /\ pc = "returned" /\ ret = Null
    /\ step = 2 /\ ~IsZero(aug[2][2])
    /\ ~IsZero(Det(argA))

----------------------------------------------------------------------------
(* Properties of the price system, under SpecPrices.                       *)

MetricsComputed == pc \in {"aggregates", "breakdown", "rendered"}

AggregatesComputed == pc \in {"breakdown", "rendered"}

NumCommodities == Len(commodities)

\* A[i][j] = inputMatrix[i][j] / X[j], 0 when X[j] = 0, and l[j] = (L[j] / X[j]) * w
SpecA(i, j) ==
    IF IsZero(commodities[j].totalOutput) THEN Zero
    ELSE Div(matrix[i][j], commodities[j].totalOutput)

SpecL(j) ==
    IF IsZero(commodities[j].totalOutput) THEN Zero
    ELSE Mul(Div(commodities[j].laborInput, commodities[j].totalOutput), wage)

\* S[row][col] = (row = col ? 1 : 0) - (1 + r) * A[col][row]
SpecS ==
    [row \in 1..NumCommodities |->
        [col \in 1..NumCommodities |->
            Sub(IF row = col THEN Num(1) ELSE Zero,
                Mul(Add(Num(1), profitRate), SpecA(col, row)))]]

\* the solver's answer for the system of the snapshot
Solved == solveLinearSystem(SpecS, [j \in 1..NumCommodities |-> SpecL(j)])

\* C3 as stated: the price vector is empty exactly when the solver found no
\* solution, and an empty price vector is never paired with isValid = true.
C3_EmptyIffNoSolution ==
    MetricsComputed =>
        /\ (Len(prices) = 0 <=> Solved.null)
        /\ ~(Len(prices) = 0 /\ isValid)

\* C3 amended: with at least one commodity the price vector is empty exactly
\* when the solver found no solution, and then isValid is false, so an empty
\* vector is never paired with isValid = true; with no commodity the solver
\* returns the empty solution and the result is the empty vector with
\* isValid = true.
C3_EmptyIffNoSolutionNonEmpty ==
    MetricsComputed =>
        IF NumCommodities = 0
        THEN ~Solved.null /\ Len(prices) = 0 /\ isValid
        ELSE /\ (Len(prices) = 0 <=> Solved.null)
             /\ (Solved.null => ~isValid)
             /\ (~Solved.null => Len(prices) = NumCommodities)

\* C3 witness: two produced commodities whose system is singular.
C3_Witness ==
    /\ MetricsComputed /\ NumCommodities = 2 /\ Len(prices) = 0 /\ ~isValid
    /\ \A j \in 1..2 : ~IsZero(commodities[j].totalOutput)

\* C4: whenever the solver returns a vector P, the prices are P unchanged
\* and isValid is true exactly when every entry of P is > -1e-6; the prices
\* are returned also when isValid is false.
C4_PricesAndValidity ==
    (MetricsComputed /\ ~Solved.null) =>
        /\ prices = Solved.x
        /\ Len(prices) = NumCommodities
        /\ (isValid <=> \A i \in 1..Len(prices) : Lt(Dec(-1, -6), prices[i]))

\* C4 witness: two prices are returned, one negative, flagged invalid.
C4_Witness ==
    /\ MetricsComputed /\ ~isValid /\ Len(prices) = 2
    /\ \E i \in 1..2 : Lt(prices[i], Zero)
    /\ \E i \in 1..2 : Lt(Zero, prices[i])

\* C5: the system matrix is S[row][col] = (row = col ? 1 : 0) - (1+r)A[col][row],
\* and every returned price vector satisfies, for each commodity j,
\* p[j] = (1+r) * sum_i p[i] * A[i][j] + l[j].
C5_PriceEquation ==
    LET A == [i \in 1..NumCommodities |-> [j \in 1..NumCommodities |-> SpecA(i, j)]]
        RECURSIVE cost(_, _)
        cost(j, i) == IF i = 0 THEN Zero ELSE Add(cost(j, i - 1), Mul(prices[i], SpecA(i, j)))
    IN  MetricsComputed =>
            /\ SystemMatrix(A, profitRate) = SpecS
            /\ Len(prices) > 0 =>
                 \A j \in 1..NumCommodities :
                    NumEq(prices[j],
                          Add(Mul(Add(Num(1), profitRate), cost(j, NumCommodities)), SpecL(j)))

\* C5 witness: prices of a system whose coefficient matrix is not symmetric.
C5_Witness ==
    /\ MetricsComputed /\ Len(prices) = 2 /\ isValid
    /\ ~NumEq(SpecA(1, 2), SpecA(2, 1))
    /\ ~IsZero(prices[1]) /\ ~IsZero(prices[2])

\* C6: whenever the prices are valid, for every commodity idx, also one of
\* total output 0, constantCapitalValue + profit + wageCost = price[idx]
\* (within 1e-9).
C6_BreakdownSumsToPrice ==
    (pc = "rendered" /\ isValid /\ ~breakdown.null) =>
        /\ breakdown.price = prices[breakdown.idx]
        /\ Le(Abs(Sub(Add(Add(breakdown.constantCapitalValue, breakdown.profit),
                          breakdown.wageCost),
                      breakdown.price)),
              Dec(1, -9))

\* C8, the part at r = 0.15: for the initial system at w = 1 the prices are
\* exactly 2 strictly positive numbers and isValid is true.
C8_InitialSystemAtFifteenPercent ==
    (/\ MetricsComputed
     /\ commodities = INITIAL_COMMODITIES /\ matrix = INITIAL_MATRIX
     /\ NumEq(profitRate, Frac(3, 20)) /\ NumEq(wage, Num(1))) =>
        /\ Len(prices) = 2
        /\ Gt(prices[1], Zero) /\ Gt(prices[2], Zero)
        /\ isValid

\* the initial system at r = 0.15, w = 1, with its prices 10/23 and 20/3
C8_InitialSystemWitness ==
    /\ MetricsComputed
    /\ commodities = INITIAL_COMMODITIES /\ matrix = INITIAL_MATRIX
    /\ NumEq(profitRate, Frac(3, 20)) /\ NumEq(wage, Num(1))
    /\ prices = <<Frac(10, 23), Frac(20, 3)>>

\* C9: when netProduct is exactly 0, wageShare and profitShare both read 0,
\* for every snapshot, also with negative prices.
C9_ZeroNetProductZeroShares ==
    (AggregatesComputed /\ ~aggregates.null /\ IsZero(aggregates.netProduct)) =>
        IsZero(aggregates.wageShare) /\ IsZero(aggregates.profitShare)

\* C9, what the code computes instead: when netProduct is exactly 0 the
\* divisor is replaced by 1, so wageShare = totalWages * 100 and profitShare =
\* totalProfits * 100 = -wageShare; both read 0 exactly when totalWages = 0.
C9_ZeroNetProductShares ==
    (AggregatesComputed /\ ~aggregates.null /\ IsZero(aggregates.netProduct)) =>
        /\ NumEq(aggregates.wageShare, Mul(aggregates.totalWages, Num(100)))
        /\ NumEq(aggregates.profitShare, Mul(aggregates.totalProfits, Num(100)))
        /\ NumEq(aggregates.profitShare, Neg(aggregates.wageShare))
        /\ (IsZero(aggregates.totalWages) <=>
                IsZero(aggregates.wageShare) /\ IsZero(aggregates.profitShare))

\* C9 witness: a zero net product made of positive wages and negative profits.
C9_Witness ==
    /\ AggregatesComputed /\ ~aggregates.null /\ IsZero(aggregates.netProduct)
    /\ Lt(Zero, aggregates.totalWages) /\ Lt(aggregates.totalProfits, Zero)

\* C10: whenever netProduct # 0, wageShare + profitShare = 100, where
\* totalWages = sum_j w * L[j], totalCapital = sum_j sum_i price[i] * matrix[i][j],
\* totalProfits = totalCapital * r and netProduct = totalWages + totalProfits.
C10_SharesSumTo100 ==
    LET RECURSIVE wages(_)
        wages(j) == IF j = 0 THEN Zero
                    ELSE Add(wages(j - 1), Mul(wage, commodities[j].laborInput))
        RECURSIVE capital(_)
        capital(k) == IF k = 0 THEN Zero
                      ELSE Add(capital(k - 1),
                               Mul(prices[((k - 1) % NumCommodities) + 1],
                                   matrix[((k - 1) % NumCommodities) + 1]
                                         [((k - 1) \div NumCommodities) + 1]))
    IN  (AggregatesComputed /\ ~aggregates.null) =>
            /\ NumEq(aggregates.totalWages, wages(NumCommodities))
            /\ NumEq(aggregates.totalCapital, capital(NumCommodities * NumCommodities))
            /\ NumEq(aggregates.totalProfits, Mul(aggregates.totalCapital, profitRate))
            /\ NumEq(aggregates.netProduct,
                     Add(aggregates.totalWages, aggregates.totalProfits))
            /\ ~IsZero(aggregates.netProduct) =>
                  NumEq(Add(aggregates.wageShare, aggregates.profitShare), Num(100))

\* C10 witness: accounts with a positive wage share and a positive profit share.
C10_Witness ==
    /\ AggregatesComputed /\ ~aggregates.null /\ NumCommodities = 2
    /\ ~IsZero(aggregates.netProduct)
    /\ Lt(Zero, aggregates.wageShare) /\ Lt(Zero, aggregates.profitShare)

----------------------------------------------------------------------------
(* Properties of the maximum profit rate, under SpecMaxRate.               *)

\* every unit labour l[j] = (L[j] / X[j]) * w is strictly positive
PositiveUnitLabor ==
    \A j \in 1..NumCommodities :
        Gt(UnitLabor(LaborVector(commodities), TotalOutputs(commodities), wage)[j], Zero)

\* the power iteration ended on a strictly positive eigenvector of A with
\* eigenvalue lambda, above the cap of line 119
IterationConverged ==
    /\ NumCommodities > 0
    /\ Len(eigV) = NumCommodities
    /\ \A j \in 1..NumCommodities : eigV[j] > 0
    /\ \A j \in 1..NumCommodities :
          NumEq(MatVec(RateA, eigV)[j], Mul(lambda, Num(eigV[j])))
    /\ Gt(lambda, Dec(1, -9))

SomeNegativePrice == \E j \in 1..Len(prices) : Lt(prices[j], Zero)

----------------------------------------------------------------------------
(* Properties of calculateMaxProfitRate, under SpecMaxRate.                *)

RateComputed == pc \in {"metrics", "aggregates", "breakdown", "rendered"}

\* the positive vectors tried as eigenvectors
PerronEntries == 1..2

\* x is a strictly positive eigenvector of A; its eigenvalue is then the
\* dominant (Perron) eigenvalue of the non-negative matrix A
IsPerronVector(A, x) ==
    \A j \in 1..Len(A) :
        NumEq(MatVec(A, x)[j], Mul(Div(MatVec(A, x)[1], Num(x[1])), Num(x[j])))

PerronRoot(A, x) == Div(MatVec(A, x)[1], Num(x[1]))

\* C11: maxProfitRate is the capped value 100 exactly when the dominant
\* eigenvalue lambda of A (A[i][j] = inputMatrix[i][j] / X[j], 0 when
\* X[j] = 0) is <= 1e-9, and 1 / lambda - 1 otherwise; a coefficient matrix
\* with dominant eigenvalue 0.5 gives 1.
C11_PerronRootCapOrInverse ==
    (RateComputed /\ NumCommodities > 0) =>
        \A x \in [1..NumCommodities -> PerronEntries] :
            IsPerronVector(RateA, x) =>
                /\ RateA = [i \in 1..NumCommodities |->
                              [j \in 1..NumCommodities |-> SpecA(i, j)]]
                /\ Le(PerronRoot(RateA, x), Dec(1, -9)) => maxProfitRate = Num(100)
                /\ Gt(PerronRoot(RateA, x), Dec(1, -9)) =>
                      NumEq(maxProfitRate, Sub(Div(Num(1), PerronRoot(RateA, x)), Num(1)))
                /\ NumEq(PerronRoot(RateA, x), Dec(5, -1)) => NumEq(maxProfitRate, Num(1))

\* C11, what the code computes: the same rule on the value lambda that
\* getDominantEigenvalue returned, which is the dominant eigenvalue only
\* when the power iteration has converged.
C11_CapOrInverse ==
    RateComputed =>
        /\ Le(lambda, Dec(1, -9)) => maxProfitRate = Num(100)
        /\ Gt(lambda, Dec(1, -9)) =>
              NumEq(maxProfitRate, Sub(Div(Num(1), lambda), Num(1)))
        /\ NumEq(lambda, Dec(5, -1)) => NumEq(maxProfitRate, Num(1))

\* C11 witness: the coefficient matrix [[0, 1], [0.25, 0]] has the positive
\* eigenvector (2, 1) with eigenvalue 0.5; the iteration ends on (1, 1) with
\* lambda = 0.625 and the rate returned is 0.6
C11_Witness ==
    /\ RateComputed
    /\ NumCommodities = 2
    /\ IsPerronVector(RateA, <<2, 1>>)
    /\ NumEq(PerronRoot(RateA, <<2, 1>>), Dec(5, -1))
    /\ eigIter = Iterations
    /\ eigV = <<1, 1>>
    /\ NumEq(lambda, Dec(625, -3))
    /\ NumEq(maxProfitRate, Dec(6, -1))

\* the value returned is exactly 1e-9 and the rate is the cap
C11_WitnessAtCap ==
    /\ RateComputed
    /\ NumEq(lambda, Dec(1, -9))
    /\ maxProfitRate = Num(100)

----------------------------------------------------------------------------
(* Properties of getDominantEigenvalue, under SpecEigen and SpecEigenFair. *)

EigenReturned == pc = "cap"

\* the norm of w = A.v is below 1e-12, for v of direction u
NormBelowTolerance(A, u) ==
    Lt(NormSq(MatVec(A, u)), Mul(Dec(1, -24), NormSq(NumVec(u))))

\* C17: the call always terminates; for n >= 1 it returns 0 at the first
\* iteration whose product w = A.v has norm below 1e-12, or performs exactly
\* 1000 iterations and returns the Rayleigh quotient v.(A.v); it never
\* performs more than 1000 iterations and has no other exit.
C17_TerminatesWithinIterations ==
    /\ <>EigenReturned
    /\ [](eigIter \in 0..1000)
    /\ [][(pc = "power" /\ pc' = "power") =>
             /\ eigIter < 1000
             /\ eigIter' = eigIter + 1
             /\ ~NormBelowTolerance(RateA, eigV)]_vars
    /\ [][(pc = "power" /\ pc' # "power") =>
             /\ pc' = "cap"
             /\ \/ /\ eigIter < 1000
                   /\ NormBelowTolerance(RateA, eigV)
                   /\ lambda' = Zero
                \/ /\ eigIter = 1000
                   /\ lambda' = Div(Inner(NumVec(eigV), MatVec(RateA, eigV), Len(eigV)),
                                    NormSq(NumVec(eigV)))]_vars
    /\ [][(pc = "maxrate" /\ NumCommodities >= 1) => (pc' = "power" /\ eigIter' = 0)]_vars

\* C17 witness: a call that returned after exactly 1000 iterations on a
\* vector that still changed direction at the last one
C17_Witness ==
    /\ EigenReturned
    /\ NumCommodities = 2
    /\ eigIter = 1000
    /\ ~NumEq(lambda, Zero)
    /\ eigV # StartDirection(2)

\* a call that returned 0 at its second iteration
C17_WitnessVanish ==
    /\ EigenReturned
    /\ matrix = NilpotentMatrix
    /\ eigIter = 1
    /\ lambda = Zero

\* C12, the cases with an exact value: the identity matrix of any size
\* n >= 1 gives 1, every all-zero matrix and n = 0 give 0.
C12_IdentityZeroEmpty ==
    EigenReturned =>
        /\ (NumCommodities >= 1 /\ RateA = DiagonalMatrix(NumCommodities, Num(1)))
              => lambda = Num(1)
        /\ RateA = DiagonalMatrix(NumCommodities, Zero) => lambda = Zero
        /\ NumCommodities = 0 => lambda = Zero

\* the identity matrix of size 2 after 1000 iterations
C12_IdentityWitness ==
    /\ EigenReturned
    /\ NumCommodities = 2
    /\ RateA = DiagonalMatrix(2, Num(1))
    /\ eigIter = 1000
    /\ lambda = Num(1)

\* C13: solveLinearSystem never mutates its arguments: at every step of a
\* call, and so after it, whether it returns a vector or no solution, the
\* caller's matrix A and vector b are what they were before the call; swaps
\* and eliminations happen on the copy.
C13_ArgumentsNotMutated == [][argA' = argA /\ argB' = argB]_vars

\* a call that returned a vector after its copy was changed by elimination
C13_Witness ==
    /\ pc = "returned"
    /\ ret # Null
    /\ Len(argA) = 2
    /\ aug # Augment(argA, argB)

\* a call that returned no solution after its copy was changed
C13_WitnessNoSolution ==
    /\ pc = "returned"
    /\ ret = Null
    /\ Len(argA) = 2
    /\ aug # Augment(argA, argB)

----------------------------------------------------------------------------
(* Properties of successive calls, under SpecCalls.                        *)

SameArguments(c1, c2) ==
    /\ c1.commodities = c2.commodities
    /\ c1.matrix = c2.matrix
    /\ c1.profitRate = c2.profitRate
    /\ c1.wage = c2.wage

\* C14: calculateSraffianPrices is deterministic and stateless: two calls
\* with the same arguments, whatever calls on other snapshots lie between
\* them, return the same prices and the same isValid; every call returns
\* what its arguments alone determine, whatever earlier calls left behind.
C14_SameArgumentsSameResult ==
    /\ \A i, j \in 1..Len(calls) :
          SameArguments(calls[i], calls[j]) => calls[i].result = calls[j].result
    /\ \A i \in 1..Len(calls) :
          calls[i].result =
              calculateSraffianPrices(calls[i].matrix, LaborVector(calls[i].commodities),
                                      TotalOutputs(calls[i].commodities),
                                      calls[i].profitRate, calls[i].wage)

\* the initial system priced, then another system of the same size, then
\* the initial system again
C14_Witness ==
    /\ pc = "idle"
    /\ Len(calls) = 3
    /\ SameArguments(calls[1], calls[3])
    /\ ~SameArguments(calls[1], calls[2])
    /\ Len(calls[2].commodities) = Len(calls[1].commodities)
    /\ calls[1].result.isValid
    /\ calls[3].result.prices = <<Frac(10, 23), Frac(20, 3)>>

----------------------------------------------------------------------------
(* Properties of the editing handlers, under SpecEdit.                     *)

\* C15: after any sequence of editing operations from the initial state
\* the input matrix has n rows of n entries each, n the number of
\* commodities; so it is at every recomputation of the results.
C15_MatrixSquare ==
    /\ Len(matrix) = Len(commodities)
    /\ \A k \in 1..Len(matrix) : Len(matrix[k]) = Len(commodities)

\* a commodity added and the second commodity removed: the results are
\* recomputed for commodities 1 and 3 on a 2 x 2 matrix
C15_Witness ==
    /\ RenderComplete
    /\ edits = 2
    /\ Len(commodities) = 2
    /\ commodities[1].id = 1
    /\ commodities[2].id = 3
    /\ matrix = <<<<Num(280), Num(0)>>, <<Num(0), Num(0)>>>>
    /\ Len(prices) = 2

\* a cell of the row of an added commodity edited
C15_WitnessAdded ==
    /\ RenderComplete
    /\ Len(commodities) = 3
    /\ ~IsZero(matrix[3][3])

Ids(comms) == {comms[k].id : k \in 1..Len(comms)}

\* C18: the ids of the commodities stay pairwise distinct and the list never
\* becomes empty; a commodity added gets the largest id of the list + 1;
\* handleRemoveCommodity changes neither commodities nor matrix when one
\* commodity remains.
C18_DistinctIdsNeverEmpty ==
    /\ [](/\ Len(commodities) >= 1
          /\ \A i, j \in 1..Len(commodities) :
                i # j => commodities[i].id # commodities[j].id)
    /\ [][AddCommodity =>
            /\ Len(commodities') = Len(commodities) + 1
            /\ commodities'[Len(commodities')].id \notin Ids(commodities)
            /\ \A id \in Ids(commodities) : id < commodities'[Len(commodities')].id
            /\ \E id \in Ids(commodities) : commodities'[Len(commodities')].id = id + 1]_vars
    /\ [][(RemoveCommodity /\ Len(commodities) = 1) =>
            UNCHANGED <<commodities, matrix>>]_vars

\* the first commodity removed, a removal refused, and a commodity added:
\* the ids are 2 and 3
C18_Witness ==
    /\ RenderComplete
    /\ edits = 3
    /\ Len(commodities) = 2
    /\ commodities[1].id = 2
    /\ commodities[2].id = 3

\* the removal refused: one commodity is left after two removals
C18_WitnessRefused ==
    /\ edits = 2
    /\ Len(commodities) = 1
    /\ Len(matrix) = 1

----------------------------------------------------------------------------
(* Properties of the commentary, under SpecAnalyze and SpecAnalyzeFair.    *)

NotConfiguredText == String("Gemini API Key not configured.")

ErrorText == String("Error generating analysis. Please check API key and limits.")

\* C16: a commentary request, with the client missing, with a reply or with
\* a failure, sets only analysis and isAnalyzing: commodities, matrix,
\* profit rate, wage, prices, isValid, maxProfitRate and aggregates are left
\* as they are, and the prices are those of the current state whatever the
\* commentary did; analyzeEconomy yields a text in every case, so that the
\* call settled leaves isAnalyzing false.
C16_CommentaryLeavesResults ==
    /\ [][(handleAnalyze \/ AnalyzeSettles) =>
            UNCHANGED <<commodities, matrix, profitRate, wage, prices, isValid,
                        maxProfitRate, aggregates>>]_vars
    /\ [][AnalyzeSettles =>
            /\ ~isAnalyzing'
            /\ analysis'.text \in {NotConfiguredText.text, ErrorText.text,
                                   "No analysis generated.", "generated"}
            /\ ~ai => analysis' = NotConfiguredText]_vars
    /\ [](RenderComplete =>
            LET result == calculateSraffianPrices(matrix, LaborVector(commodities),
                                                  TotalOutputs(commodities),
                                                  profitRate, wage)
            IN  prices = result.prices /\ isValid = result.isValid)

\* a request that failed: the results of the system are in place
C16_Witness ==
    /\ RenderComplete
    /\ ~isAnalyzing
    /\ ai
    /\ analysis = ErrorText
    /\ Len(prices) = 1
    /\ NumEq(prices[1], Frac(5, 27))
    /\ isValid
    /\ NumEq(maxProfitRate, Frac(3, 2))
    /\ aggregates # NoAggregates

\* a request settled without a client
C16_WitnessNotConfigured ==
    /\ RenderComplete
    /\ ~isAnalyzing
    /\ ~ai
    /\ analysis = NotConfiguredText
    /\ isValid

\* a request answered with a text
C16_WitnessGenerated ==
    /\ RenderComplete
    /\ ~isAnalyzing
    /\ analysis.text = "generated"
    /\ isValid

C19_WitnessCompleted ==
    /\ RenderComplete
    /\ ~isAnalyzing
    /\ analysis.text = "generated"
    /\ analysis.prompt # <<Prompt(commodities, matrix, profitRate, prices, isValid)>>
    /\ analysis.prompt[1].prices = <<[text |-> "fixed", negative |-> FALSE, units |-> 19]>>

====
